---------------------------- MODULE Spec2Model ----------------------------
(***************************************************************************)
(* Model of the dashboard client App (src/unnamed/part_000): the polling   *)
(* client fetchData, the action dispatcher handleSendMessage and           *)
(* handleApproveTask, and the voice capture adapter startRecording /       *)
(* stopRecording.  Every await of the source is a point where the handler  *)
(* is suspended; the continuation after it is a separate action, so other  *)
(* handlers interleave exactly where the event loop lets them.             *)
(***************************************************************************)
EXTENDS Integers, Sequences, FiniteSets, Bags, TLC

VARIABLES
    kpis,             \* useState<KPI[]>                       (line 46)
    situationData,    \* useState<RecommendationResponse|null> (line 47)
    messages,         \* useState<ChatMessage[]>               (line 49)
    input,            \* useState("")                          (line 52)
    loading,          \* useState(false)                       (line 53)
    approving,        \* useState(false)                       (line 54)
    isRecording,      \* useState(false)                       (line 57)
    mediaRecorderRef, \* useRef<MediaRecorder|null>, 0 for null (line 58)
    audioChunksRef,   \* useRef<Blob[]>                        (line 59)
    mounted,          \* the mount effect of line 79 has run
    cycles,           \* the invocations of fetchData, in the order they started
    approvals,        \* the invocations of handleApproveTask
    queries,          \* the invocations of handleSendMessage that passed line 87
    recorders,        \* the invocations of startRecording
    held,             \* the hold-to-talk control is pressed
    requests,         \* bag of the HTTP requests issued (axios.get / axios.post)
    alerts,           \* every alert() raised
    errorLog,         \* number of console.error calls
    kpiWriter,        \* history: the cycle whose KPI response arrived last (0: none)
    sitWriter,        \* history: the cycle whose recommendations response arrived last
    lastKpiRes,       \* history: the body of the KPI response that arrived last
    lastRecRes        \* history: the body of the recommendations response that arrived last

vars == <<kpis, situationData, messages, input, loading, approving, isRecording,
          mediaRecorderRef, audioChunksRef, mounted, cycles, approvals, queries,
          recorders, held, requests, alerts, errorLog,
          kpiWriter, sitWriter, lastKpiRes, lastRecRes>>

pollVars  == <<kpis, situationData, loading, mounted, cycles, errorLog,
              kpiWriter, sitWriter, lastKpiRes, lastRecRes>>
taskVars  == <<approving, approvals>>
chatVars  == <<messages, input, queries>>
voiceVars == <<isRecording, mediaRecorderRef, audioChunksRef, recorders, held>>

-----------------------------------------------------------------------------
(* Bounds of the model *)

MaxCycles == 3          \* fetchData invocations in the polling specification
MaxTaskCycles == 2      \* fetchData invocations in the approval specification
MaxApprovals == 2       \* handleApproveTask invocations
MaxChatInputs == 3      \* text queries and presses together in the assistant specification
MaxPresses == 2         \* presses of the hold-to-talk control in the capture specification

-----------------------------------------------------------------------------
(* Program constants and the values the collaborators may return *)

\* null, where a record is expected
None == [null |-> TRUE]

BRANCH_ID == "BRANCH_A"
EMPLOYEE_ID == 101
APPROVE_NOTE == "Approved via Dashboard"

KpiUrl  == "/api/cv/kpis/branch/BRANCH_A?limit=20"
RecUrl  == "/api/cv/recommendations/BRANCH_A"
TaskUrl == "/api/cv/tasks/from-recommendation"
TextUrl == "/api/nlp/nlp/query"
VoiceUrl == "/api/nlp/nlp/voice/query"

CONVERSATION_ID == "123e4567-e89b-12d3-a456-426614174000"
USER_ROLE == "manager"
APOLOGY == "Sorry, I couldn't reach the AI service."
GREETING == "Hello! I can help you analyze branch performance. Ask me anything!"
MIC_ALERT == "Could not access microphone."
TASK_OK_ALERT == "Task created for action: "
TASK_FAIL_ALERT == "Failed to create task"

\* A text is the sequence of its characters.
TypedTexts == { <<" ">>, <<" ", "o", "k", " ">> }

\* response_text of the assistant
Replies == { <<"n", "o">>, <<"T", "r", "a", "f", "f", "i", "c">> }

\* nlp_data.response_text of a voice query
VoiceReplies == { <<"o", "k">> }

\* transcription of a voice query
Transcriptions == { <<"h", "e", "y">> }

\* KPI samples are named by their time window; the service returns them newest first.
KpiResponses == { <<>>, <<"t2", "t1">>, <<"t3", "t2", "t1">> }

Rec1 == [action |-> "Open lane 3", priority |-> "high", expected_impact |-> "shorter queue"]
Rec2 == [action |-> "Restock aisle 4", priority |-> "low", expected_impact |-> "more sales"]

RecResponses ==
    { [situation |-> [situation |-> "normal", severity |-> 0, details |-> "ok"],
       recommendations |-> <<>>],
      [situation |-> [situation |-> "crowding", severity |-> 2, details |-> "queue"],
       recommendations |-> <<Rec1, Rec2>>] }

-----------------------------------------------------------------------------
(* Helpers *)

\* Array.prototype.reverse
Reverse(s) == [i \in 1..Len(s) |-> s[Len(s) + 1 - i]]

Range(s) == { s[i] : i \in 1..Len(s) }

Last(s) == s[Len(s)]

\* [kpis, situationData] as displayed
Displayed(k, s) == [kpis |-> k, situationData |-> s]

Get(url) == [method |-> "GET", url |-> url, body |-> None]
Post(url, body) == [method |-> "POST", url |-> url, body |-> body]

\* the request is handed to the network
Issue(req) == requests' = requests (+) SetToBag({req})

InFlight(c) == cycles[c].pc \in {"kpi", "rec"}

\* a fetchData invocation that returned keeps only its outcome
Finished(rec, outcome) ==
    [rec EXCEPT !.pc = outcome, !.src = "", !.kpiRes = <<>>, !.before = None]

-----------------------------------------------------------------------------
(* Polling client: fetchData, lines 62-77 *)

MutSetKpisUnreversed(data) == data

\* line 67: the value handed to setKpis
SetKpisArg(data) == Reverse(data)

MutClearOnFetchError(k) == <<>>

\* lines 72-73: the catch block logs and touches no state
KpisAfterFetchError(k) == k

MutReadsIssuedTogether == TRUE

\* lines 66-72: a rejected KPI request jumps to the catch block, past line 70, so the
\* recommendations request of that cycle is not issued
RecIssuedAfterKpiError == FALSE

MutLatestIssuedWins(c, lastWriter) == c > lastWriter

\* lines 67 and 71: a response is stored whichever cycle it belongs to; the code
\* compares no sequence number
StoresResponse(c, lastWriter) == TRUE

\* lines 62-66: setLoading(true) and the KPI request is issued
FetchStart(src, cap) ==
    /\ Len(cycles) < cap
    /\ loading' = TRUE
    /\ Issue(Get(KpiUrl))
    /\ cycles' = Append(
          [c \in 1..Len(cycles) |->
              IF InFlight(c) THEN [cycles[c] EXCEPT !.solo = FALSE] ELSE cycles[c]],
          [src    |-> src,
           pc     |-> "kpi",
           kpiRes |-> <<>>,
           before |-> Displayed(kpis, situationData),
           solo   |-> \A c \in 1..Len(cycles) : ~InFlight(c)])
    /\ UNCHANGED <<kpis, situationData, errorLog, kpiWriter, sitWriter,
                   lastKpiRes, lastRecRes, taskVars, chatVars, voiceVars, alerts>>

\* lines 79-83: the mount effect calls fetchData and arms the interval
Mount ==
    /\ ~mounted
    /\ mounted' = TRUE
    /\ FetchStart("mount", 1)

\* line 81: the interval fires; it has no guard on a cycle being in flight
TimerTick(cap) ==
    /\ mounted
    /\ mounted' = mounted
    /\ FetchStart("timer", cap)

\* lines 194-196: the refresh button, disabled while loading
RefreshClick(cap) ==
    /\ mounted
    /\ ~loading
    /\ mounted' = mounted
    /\ FetchStart("button", cap)

\* lines 66-70: the KPI request resolves; setKpis, then the second request is issued
KpiOk(c, data) ==
    /\ cycles[c].pc = "kpi"
    /\ kpis' = IF StoresResponse(c, kpiWriter) THEN SetKpisArg(data) ELSE kpis
    /\ Issue(Get(RecUrl))
    /\ cycles' = [cycles EXCEPT ![c].pc = "rec", ![c].kpiRes = data]
    /\ kpiWriter' = c
    /\ lastKpiRes' = data
    /\ UNCHANGED <<situationData, loading, mounted, errorLog, sitWriter, lastRecRes,
                   taskVars, chatVars, voiceVars, alerts>>

\* lines 66, 72-76: the KPI request rejects
KpiFail(c) ==
    /\ cycles[c].pc = "kpi"
    /\ errorLog' = errorLog + 1
    /\ kpis' = KpisAfterFetchError(kpis)
    /\ IF RecIssuedAfterKpiError THEN Issue(Get(RecUrl)) ELSE requests' = requests
    /\ loading' = FALSE
    /\ cycles' = [cycles EXCEPT ![c] = Finished(@, "failKpi")]
    /\ UNCHANGED <<situationData, mounted, kpiWriter, sitWriter, lastKpiRes, lastRecRes,
                   taskVars, chatVars, voiceVars, alerts>>

\* lines 70-71, 74-76: the recommendations request resolves
RecOk(c, body) ==
    /\ cycles[c].pc = "rec"
    /\ situationData' = IF StoresResponse(c, sitWriter) THEN body ELSE situationData
    /\ loading' = FALSE
    /\ cycles' = [cycles EXCEPT ![c] = Finished(@, "ok")]
    /\ sitWriter' = c
    /\ lastRecRes' = body
    /\ UNCHANGED <<kpis, mounted, errorLog, requests, kpiWriter, lastKpiRes,
                   taskVars, chatVars, voiceVars, alerts>>

\* lines 70, 72-76: the recommendations request rejects
RecFail(c) ==
    /\ cycles[c].pc = "rec"
    /\ errorLog' = errorLog + 1
    /\ kpis' = KpisAfterFetchError(kpis)
    /\ loading' = FALSE
    /\ cycles' = [cycles EXCEPT ![c] = Finished(@, "failRec")]
    /\ UNCHANGED <<situationData, mounted, requests, kpiWriter, sitWriter,
                   lastKpiRes, lastRecRes, taskVars, chatVars, voiceVars, alerts>>

-----------------------------------------------------------------------------
(* Action dispatcher: handleApproveTask, lines 162-179 *)

MutPayloadWithoutImpact(rec) ==
    [employee_id |-> EMPLOYEE_ID, branch_id |-> BRANCH_ID, action |-> rec.action,
     priority |-> rec.priority, expected_impact |-> "", note |-> APPROVE_NOTE]

\* lines 165-172: the body of the write request
TaskPayload(rec) ==
    [employee_id |-> EMPLOYEE_ID, branch_id |-> BRANCH_ID, action |-> rec.action,
     priority |-> rec.priority, expected_impact |-> rec.expected_impact,
     note |-> APPROVE_NOTE]

MutRetryOnFailure(req) == requests (+) SetToBag({req})

\* lines 174-175: the catch block raises the notice and sends nothing
RequestsAfterTaskError(req) == requests

\* lines 309-311: the recommendations on display
DisplayedRecs == IF situationData = None THEN <<>> ELSE situationData.recommendations

\* lines 319-321, 162-165: the Approve button of a displayed recommendation, disabled
\* while approving
ApproveClick(i) ==
    /\ Len(approvals) < MaxApprovals
    /\ i \in 1..Len(DisplayedRecs)
    /\ ~approving
    /\ approving' = TRUE
    /\ Issue(Post(TaskUrl, TaskPayload(DisplayedRecs[i])))
    /\ approvals' = Append(approvals, [rec |-> DisplayedRecs[i], pc |-> "wait"])
    /\ UNCHANGED <<pollVars, chatVars, voiceVars, alerts>>

\* lines 173, 176-178: the write request resolves
ApproveOk(a) ==
    /\ approvals[a].pc = "wait"
    /\ alerts' = Append(alerts, [msg |-> TASK_OK_ALERT, arg |-> approvals[a].rec.action])
    /\ approving' = FALSE
    /\ approvals' = [approvals EXCEPT ![a].pc = "ok"]
    /\ UNCHANGED <<pollVars, chatVars, voiceVars, requests>>

\* lines 174-178: the write request rejects
ApproveFail(a) ==
    /\ approvals[a].pc = "wait"
    /\ alerts' = Append(alerts, [msg |-> TASK_FAIL_ALERT, arg |-> ""])
    /\ approving' = FALSE
    /\ approvals' = [approvals EXCEPT ![a].pc = "fail"]
    /\ requests' = RequestsAfterTaskError(Post(TaskUrl, TaskPayload(approvals[a].rec)))
    /\ UNCHANGED <<pollVars, chatVars, voiceVars>>

-----------------------------------------------------------------------------
(* Action dispatcher: handleSendMessage, lines 86-128 *)

IsSpace(ch) == ch = " "

\* String.prototype.trim
RECURSIVE TrimStart(_)
TrimStart(t) ==
    IF t # <<>> /\ IsSpace(Head(t)) THEN TrimStart(Tail(t)) ELSE t

Trim(t) == Reverse(TrimStart(Reverse(TrimStart(t))))

User(t) == [role |-> "user", text |-> t]
Bot(t)  == [role |-> "bot", text |-> t]

MutUserMsgTrimmed(t) == Trim(t)

\* line 89, text query: userMsg is the input as typed
UserMsg(t) == t

MutErrorRepeatsUser(msgs, q) == msgs \o <<User(q.text), Bot(APOLOGY)>>

\* line 126: the catch block appends the apology
AppendApology(msgs, q) == Append(msgs, Bot(APOLOGY))

MutVoiceReplyDropped(msgs, transcription, reply) == Append(msgs, User(transcription))

\* lines 106-110: one state update appends the transcription and the reply
AppendVoiceResult(msgs, transcription, reply) ==
    msgs \o <<User(transcription), Bot(reply)>>

\* an invocation past line 87: typed is the input at that moment, text the query sent,
\* blob the audio payload, userIdx and botIdx the places of its chat entries (0: none)
NewQuery(kind, typed, text, blob, userIdx) ==
    [kind |-> kind, pc |-> "wait", typed |-> typed, text |-> text, blob |-> blob,
     userIdx |-> userIdx, botIdx |-> 0, reply |-> <<>>, transcription |-> <<>>]

\* the text queries sent and the presses of the hold-to-talk control so far
UserInputs ==
    Cardinality({q \in 1..Len(queries) : queries[q].kind = "text"}) + Len(recorders)

\* line 388: typing in the input field, disabled while recording
TypeInput(t) ==
    /\ ~isRecording
    /\ t # input
    /\ input' = t
    /\ UNCHANGED <<messages, queries, pollVars, taskVars, voiceVars, requests, alerts>>

\* lines 389, 395, 86-93, 117-121: Enter or the send button with no audio; a blank
\* input returns at line 87
SendText(cap) ==
    /\ UserInputs < cap
    /\ ~isRecording
    /\ Trim(input) # <<>>
    /\ messages' = Append(messages, User(UserMsg(input)))
    /\ input' = <<>>
    /\ Issue(Post(TextUrl, [query |-> UserMsg(input),
                            conversation_id |-> CONVERSATION_ID,
                            user_role |-> USER_ROLE]))
    /\ queries' = Append(queries, NewQuery("text", input, UserMsg(input), <<>>, Len(messages) + 1))
    /\ UNCHANGED <<pollVars, taskVars, voiceVars, alerts>>

\* line 123: the text query resolves
TextOk(q, reply) ==
    /\ queries[q].kind = "text"
    /\ queries[q].pc = "wait"
    /\ messages' = Append(messages, Bot(reply))
    /\ queries' = [queries EXCEPT ![q].pc = "ok", ![q].reply = reply,
                                  ![q].botIdx = Len(messages')]
    /\ UNCHANGED <<input, pollVars, taskVars, voiceVars, requests, alerts>>

\* lines 125-127: the query rejects (text or voice)
QueryFail(q) ==
    /\ queries[q].pc = "wait"
    /\ messages' = AppendApology(messages, queries[q])
    /\ queries' = [queries EXCEPT ![q].pc = "fail", ![q].botIdx = Len(messages')]
    /\ UNCHANGED <<input, pollVars, taskVars, voiceVars, requests, alerts>>

\* lines 103-114: the voice query resolves
VoiceOk(q, transcription, reply) ==
    /\ queries[q].kind = "voice"
    /\ queries[q].pc = "wait"
    /\ messages' = AppendVoiceResult(messages, transcription, reply)
    /\ queries' = [queries EXCEPT ![q].pc = "ok", ![q].reply = reply,
                                  ![q].transcription = transcription,
                                  ![q].userIdx = Len(messages) + 1,
                                  ![q].botIdx = Len(messages')]
    /\ UNCHANGED <<input, pollVars, taskVars, voiceVars, requests, alerts>>

-----------------------------------------------------------------------------
(* Voice capture adapter: startRecording, stopRecording, lines 130-160 *)

MutRecordingFlagSetEarly(cur) == TRUE

\* lines 149-152: the catch block logs and alerts; isRecording is not touched
IsRecordingAfterDenied(cur) == cur

\* lines 373, 375, 130-132: a press calls startRecording, which asks for the microphone
Press(cap) ==
    /\ UserInputs < cap
    /\ held' = TRUE
    /\ recorders' = Append(recorders, [pc |-> "acquiring", released |-> FALSE])
    /\ UNCHANGED <<isRecording, mediaRecorderRef, audioChunksRef,
                   pollVars, taskVars, chatVars, requests, alerts>>

\* lines 132-148: getUserMedia resolves; the recorder is created and started
AcquireOk(r) ==
    /\ recorders[r].pc = "acquiring"
    /\ mediaRecorderRef' = r
    /\ audioChunksRef' = <<>>
    /\ isRecording' = TRUE
    /\ recorders' = [recorders EXCEPT ![r].pc = "recording"]
    /\ UNCHANGED <<held, pollVars, taskVars, chatVars, requests, alerts>>

\* lines 132, 149-152: getUserMedia rejects
AcquireFail(r) ==
    /\ recorders[r].pc = "acquiring"
    /\ errorLog' = errorLog + 1
    /\ alerts' = Append(alerts, [msg |-> MIC_ALERT, arg |-> ""])
    /\ isRecording' = IsRecordingAfterDenied(isRecording)
    /\ recorders' = [recorders EXCEPT ![r].pc = "denied"]
    /\ UNCHANGED <<mediaRecorderRef, audioChunksRef, held, kpis, situationData, loading,
                   mounted, cycles, kpiWriter, sitWriter, lastKpiRes, lastRecRes,
                   taskVars, chatVars, requests>>

\* lines 374, 376, 155-160: a release calls stopRecording; MediaRecorder.stop() makes the
\* recorder inactive and queues its dataavailable and stop events
Release ==
    /\ held
    /\ held' = FALSE
    /\ LET stops == mediaRecorderRef # 0 /\ isRecording
           marked == [r \in 1..Len(recorders) |-> [recorders[r] EXCEPT !.released = TRUE]]
       IN  /\ isRecording' = IF stops THEN FALSE ELSE isRecording
           /\ recorders' =
                 IF stops /\ marked[mediaRecorderRef].pc = "recording"
                 THEN [marked EXCEPT ![mediaRecorderRef].pc = "stopping"]
                 ELSE marked
    /\ UNCHANGED <<mediaRecorderRef, audioChunksRef,
                   pollVars, taskVars, chatVars, requests, alerts>>

\* lines 137-145, 86-103: the recorder's dataavailable and stop events; onstop builds the
\* payload from audioChunksRef, calls handleSendMessage with it and stops the tracks
RecorderStopped(r) ==
    /\ recorders[r].pc = "stopping"
    /\ audioChunksRef' = Append(audioChunksRef, r)
    /\ Issue(Post(VoiceUrl, [audio |-> audioChunksRef',
                             conversation_id |-> CONVERSATION_ID,
                             user_role |-> USER_ROLE]))
    /\ queries' = Append(queries, NewQuery("voice", <<>>, <<>>, audioChunksRef', 0))
    /\ recorders' = [recorders EXCEPT ![r].pc = "closed"]
    /\ UNCHANGED <<isRecording, mediaRecorderRef, held, messages, input,
                   pollVars, taskVars, alerts>>

-----------------------------------------------------------------------------

Init ==
    /\ kpis = <<>>
    /\ situationData = None
    /\ messages = <<Bot(GREETING)>>
    /\ input = <<>>
    /\ loading = FALSE
    /\ approving = FALSE
    /\ isRecording = FALSE
    /\ mediaRecorderRef = 0
    /\ audioChunksRef = <<>>
    /\ mounted = FALSE
    /\ cycles = <<>>
    /\ approvals = <<>>
    /\ queries = <<>>
    /\ recorders = <<>>
    /\ held = FALSE
    /\ requests = EmptyBag
    /\ alerts = <<>>
    /\ errorLog = 0
    /\ kpiWriter = 0
    /\ sitWriter = 0
    /\ lastKpiRes = <<>>
    /\ lastRecRes = None

PollStep(cap) ==
    \/ Mount
    \/ TimerTick(cap)
    \/ RefreshClick(cap)
    \/ \E c \in 1..Len(cycles) : \E data \in KpiResponses : KpiOk(c, data)
    \/ \E c \in 1..Len(cycles) : KpiFail(c)
    \/ \E c \in 1..Len(cycles) : \E body \in RecResponses : RecOk(c, body)
    \/ \E c \in 1..Len(cycles) : RecFail(c)

TextStep(cap) ==
    \/ \E t \in TypedTexts : TypeInput(t)
    \/ SendText(cap)
    \/ \E q \in 1..Len(queries) : \E reply \in Replies : TextOk(q, reply)
    \/ \E q \in 1..Len(queries) : QueryFail(q)

VoiceStep(cap) ==
    \/ Press(cap)
    \/ \E r \in 1..Len(recorders) : AcquireOk(r)
    \/ \E r \in 1..Len(recorders) : AcquireFail(r)
    \/ Release
    \/ \E r \in 1..Len(recorders) : RecorderStopped(r)
    \/ \E q \in 1..Len(queries) : \E t \in Transcriptions : \E reply \in VoiceReplies :
          VoiceOk(q, t, reply)

TaskStep ==
    \/ \E i \in 1..Len(DisplayedRecs) : ApproveClick(i)
    \/ \E a \in 1..Len(approvals) : ApproveOk(a)
    \/ \E a \in 1..Len(approvals) : ApproveFail(a)

Next == PollStep(MaxCycles)

\* The polling client alone
Spec == Init /\ [][Next]_vars

NextTask == PollStep(MaxTaskCycles) \/ TaskStep

\* Approving recommendations while the poller runs
SpecTask == Init /\ [][NextTask]_vars

NextChat == TextStep(MaxChatInputs) \/ VoiceStep(MaxChatInputs)

\* The assistant: text queries and a hold-to-talk voice query
SpecChat == Init /\ [][NextChat]_vars

NextVoice ==
    \/ VoiceStep(MaxPresses)
    \/ \E q \in 1..Len(queries) : QueryFail(q)

\* The voice capture adapter and the voice queries it hands over
SpecVoice == Init /\ [][NextVoice]_vars

-----------------------------------------------------------------------------
(* Properties of the polling client *)

CycleIds == 1..Len(cycles)

PassesKpi(c)  == cycles[c].pc = "kpi" /\ cycles'[c].pc = "rec"
CompletesOk(c) == cycles[c].pc = "rec" /\ cycles'[c].pc = "ok"
FailsAtKpi(c) == cycles[c].pc = "kpi" /\ cycles'[c].pc = "failKpi"
FailsAtRec(c) == cycles[c].pc = "rec" /\ cycles'[c].pc = "failRec"

C2_FailedCycleLeavesStateAsBefore ==
    [][\A c \in CycleIds :
          (FailsAtKpi(c) \/ FailsAtRec(c)) /\ cycles[c].solo =>
              Displayed(kpis', situationData') = cycles[c].before]_vars

\* C2 as amended: the rejection of either request changes neither kpis nor
\* situationData, is logged, clears loading and leaves the interval armed; a cycle that
\* ran alone and failed at the KPI request leaves both values as before the cycle, and
\* one that failed at the recommendations request leaves situationData as before the
\* cycle while kpis holds the cycle's reversed KPI list.
C2_FailureKeepsWhatIsStored ==
    [][\A c \in CycleIds :
          /\ (FailsAtKpi(c) \/ FailsAtRec(c)) =>
                /\ kpis' = kpis /\ situationData' = situationData
                /\ errorLog' = errorLog + 1
                /\ ~loading' /\ mounted'
          /\ FailsAtKpi(c) /\ cycles[c].solo =>
                Displayed(kpis', situationData') = cycles[c].before
          /\ FailsAtRec(c) /\ cycles[c].solo =>
                /\ situationData' = cycles[c].before.situationData
                /\ kpis' = Reverse(cycles[c].kpiRes)]_vars

\* with data on display, one cycle has failed at the KPI request and one at the
\* recommendations request, each with no other cycle in flight
C2_Witness ==
    /\ kpis # <<>>
    /\ situationData # None
    /\ \E c \in CycleIds : cycles[c].pc = "failKpi" /\ cycles[c].solo
    /\ \E c \in CycleIds : cycles[c].pc = "failRec" /\ cycles[c].solo

RecRequests == CopiesIn(Get(RecUrl), requests)
KpiRequests == CopiesIn(Get(KpiUrl), requests)

\* C9 as stated: both requests are issued in every cycle, so every cycle that is past
\* its KPI request, failed or not, has issued its recommendations request.
C9_BothReadsIssuedEveryCycle ==
    RecRequests = Cardinality({c \in CycleIds : cycles[c].pc # "kpi"})

\* C9 as amended: every cycle issues the KPI request; the recommendations request is
\* issued only by the cycles whose KPI request resolved, so a cycle whose KPI request
\* failed issues none and stores no situationData, and a cycle whose recommendations
\* request failed has stored its KPI list.
C9_SecondReadOnlyAfterFirst ==
    /\ KpiRequests = Len(cycles)
    /\ RecRequests = Cardinality({c \in CycleIds : cycles[c].pc \in {"rec", "ok", "failRec"}})
    /\ \A c \in CycleIds :
          /\ cycles[c].pc = "failKpi" => kpiWriter # c /\ sitWriter # c
          /\ cycles[c].pc = "failRec" => sitWriter # c
          /\ cycles[c].pc = "rec" /\ kpiWriter = c => kpis = Reverse(cycles[c].kpiRes)

\* one cycle has failed at the KPI request and another at the recommendations request,
\* whose KPI list is on display
C9_Witness ==
    /\ \E c \in CycleIds : cycles[c].pc = "failKpi"
    /\ \E c \in CycleIds : cycles[c].pc = "failRec" /\ kpiWriter = c /\ kpis # <<>>
    /\ RecRequests < KpiRequests

\* C10: the stored values are those of the response that arrived last, whichever
\* cycle it belongs to: nothing compares the order in which the cycles were issued.
C10_LastArrivalWins ==
    /\ kpiWriter # 0 => kpis = Reverse(lastKpiRes)
    /\ sitWriter # 0 => situationData = lastRecRes

\* a cycle started by the refresh button while an earlier cycle was in flight has had
\* its KPI response stored, and the KPI response of the earlier cycle, with other data,
\* arrived after it and is what is stored
C10_Witness ==
    \E a, b \in CycleIds :
        /\ a < b
        /\ cycles[b].src = "button" /\ ~cycles[b].solo
        /\ cycles[b].pc = "rec"
        /\ kpiWriter = a
        /\ cycles[b].kpiRes # lastKpiRes
        /\ kpis = Reverse(lastKpiRes)

-----------------------------------------------------------------------------
(* Properties of the action dispatcher *)

QueryIds == 1..Len(queries)
TextIds  == {q \in QueryIds : queries[q].kind = "text"}
VoiceIds == {q \in QueryIds : queries[q].kind = "voice"}

\* the places in the chat sequence that query q has written
EntriesOf(q) == {queries[q].userIdx, queries[q].botIdx} \ {0}

\* every chat entry after the greeting was written by exactly one query, and the
\* greeting is in place: nothing was removed, replaced or added besides
EntriesAccounted ==
    /\ messages[1] = Bot(GREETING)
    /\ \A q \in QueryIds : EntriesOf(q) \subseteq 2..Len(messages)
    /\ \A p, q \in QueryIds : p # q => EntriesOf(p) \cap EntriesOf(q) = {}
    /\ UNION {EntriesOf(q) : q \in QueryIds} = 2..Len(messages)

\* C3: a text query with non-blank input t appends {user, t} when it is sent and, on a
\* reply r, {bot, r} after it: these two entries and no other, whatever other queries
\* are in flight, and no entry of the chat sequence is removed or changed.
C3_TextQueryAppendsUserThenBot ==
    /\ EntriesAccounted
    /\ \A q \in TextIds :
          /\ Trim(queries[q].typed) # <<>>
          /\ queries[q].userIdx # 0
          /\ messages[queries[q].userIdx] = User(queries[q].typed)
          /\ queries[q].pc = "wait" => queries[q].botIdx = 0
          /\ queries[q].pc = "ok" =>
                /\ queries[q].userIdx < queries[q].botIdx
                /\ messages[queries[q].botIdx] = Bot(queries[q].reply)
                /\ Cardinality(EntriesOf(q)) = 2

\* two text queries have both been answered, the second sent while the first was in
\* flight, and the text typed has blanks around it
C3_Witness ==
    \E p, q \in TextIds :
        /\ queries[p].pc = "ok" /\ queries[q].pc = "ok"
        /\ queries[p].userIdx < queries[q].userIdx
        /\ queries[q].userIdx < queries[p].botIdx
        /\ queries[p].typed = <<" ", "o", "k", " ">>
        /\ queries[p].reply \in Replies

\* C4: a text query whose request fails appends one bot entry carrying the apology;
\* the user's text is in the chat sequence once for that query, where it was put on
\* sending, and the query has written nothing else.
C4_FailedTextQueryAppendsApology ==
    /\ EntriesAccounted
    /\ \A q \in TextIds :
          queries[q].pc = "fail" =>
              /\ messages[queries[q].userIdx] = User(queries[q].typed)
              /\ messages[queries[q].botIdx] = Bot(APOLOGY)
              /\ queries[q].userIdx < queries[q].botIdx
              /\ Cardinality(EntriesOf(q)) = 2

\* a text query has failed while another one was answered
C4_Witness ==
    \E p, q \in TextIds :
        /\ queries[p].pc = "fail" /\ queries[q].pc = "ok"
        /\ messages[queries[p].botIdx].text = APOLOGY
        /\ queries[p].typed = <<" ", "o", "k", " ">>

\* C8: a voice query that succeeds appends the transcription as a user entry and the
\* reply as a bot entry right after it, and nothing else; one that fails appends the
\* apology as a bot entry and no user entry; until it is answered it appends nothing.
C8_VoiceQueryAppendsPairOrApology ==
    /\ EntriesAccounted
    /\ \A q \in VoiceIds :
          /\ queries[q].pc = "wait" => EntriesOf(q) = {}
          /\ queries[q].pc = "ok" =>
                /\ queries[q].userIdx # 0
                /\ queries[q].botIdx = queries[q].userIdx + 1
                /\ messages[queries[q].userIdx] = User(queries[q].transcription)
                /\ messages[queries[q].botIdx] = Bot(queries[q].reply)
          /\ queries[q].pc = "fail" =>
                /\ queries[q].userIdx = 0
                /\ queries[q].botIdx # 0
                /\ messages[queries[q].botIdx] = Bot(APOLOGY)

\* a voice query was answered while a text query was in flight: its two entries are
\* next to each other, between the user entry and the bot entry of the text query;
\* another voice query has failed
C8_Witness ==
    \E v, w \in VoiceIds : \E t \in TextIds :
        /\ queries[v].pc = "ok" /\ queries[t].pc = "ok"
        /\ queries[t].userIdx < queries[v].userIdx
        /\ queries[v].botIdx < queries[t].botIdx
        /\ queries[v].transcription \in Transcriptions
        /\ queries[v].reply \in VoiceReplies
        /\ queries[w].pc = "fail"
        /\ messages[queries[w].botIdx] = Bot(APOLOGY)

\* the write request an approval of rec must carry
ExpectedTaskRequest(rec) ==
    [method |-> "POST",
     url    |-> "/api/cv/tasks/from-recommendation",
     body   |-> [employee_id |-> 101, branch_id |-> "BRANCH_A",
                 action |-> rec.action, priority |-> rec.priority,
                 expected_impact |-> rec.expected_impact,
                 note |-> "Approved via Dashboard"]]

ApprovalStarts == Len(approvals') = Len(approvals) + 1
ApprovalEnds(a) == approvals[a].pc = "wait" /\ approvals'[a].pc # "wait"

\* C5: approving a displayed recommendation issues one write request, carrying its
\* action, priority and expected_impact with the branch and actor identifiers; the
\* outcome of the request, success or failure, issues no further request; and neither
\* step changes situationData, kpis or messages.
C5_ApprovalIssuesOneWrite ==
    [][/\ ApprovalStarts =>
             /\ Last(approvals').rec \in Range(DisplayedRecs)
             /\ requests' = requests (+) SetToBag({ExpectedTaskRequest(Last(approvals').rec)})
             /\ UNCHANGED <<situationData, kpis, messages>>
       /\ \A a \in 1..Len(approvals) :
             ApprovalEnds(a) =>
                 /\ requests' = requests
                 /\ UNCHANGED <<situationData, kpis, messages>>
                 /\ Len(alerts') = Len(alerts) + 1]_vars

\* one approval has succeeded and one has failed; one write request was issued for
\* each, and the recommendations are still on display
C5_Witness ==
    /\ \E a, b \in 1..Len(approvals) : approvals[a].pc = "ok" /\ approvals[b].pc = "fail"
    /\ BagCardinality(requests) - KpiRequests - RecRequests = Len(approvals)
    /\ Len(DisplayedRecs) = Len(<<Rec1, Rec2>>)
    /\ kpis # <<>>

-----------------------------------------------------------------------------
(* Properties of the voice capture adapter *)

RecorderIds == 1..Len(recorders)

Denied(r) == recorders[r].pc = "acquiring" /\ recorders'[r].pc = "denied"

\* C6: when the microphone is refused, isRecording and the recorder reference stay as
\* they were (an idle adapter stays idle), the notice is raised, no request is sent and
\* no chat entry is appended; the refused invocation never starts a recorder.
C6_DeniedMicrophoneStaysIdle ==
    [][\A r \in RecorderIds :
          /\ Denied(r) =>
                /\ isRecording' = isRecording
                /\ mediaRecorderRef' = mediaRecorderRef
                /\ mediaRecorderRef' # r
                /\ alerts' = Append(alerts, [msg |-> "Could not access microphone.", arg |-> ""])
                /\ requests' = requests
                /\ UNCHANGED <<messages, queries>>
          /\ recorders[r].pc = "denied" => recorders'[r].pc = "denied"]_vars

\* the only press so far was refused the microphone: the adapter is idle, the notice
\* is up, nothing was sent
C6_Witness ==
    /\ Len(recorders) = 1
    /\ recorders[1].pc = "denied"
    /\ ~isRecording
    /\ mediaRecorderRef = 0
    /\ Len(alerts) = 1
    /\ requests = EmptyBag
    /\ Len(messages) = 1

\* the audio payloads handed to the voice query that are built from the chunk of r
PayloadsOf(r) == {q \in VoiceIds : queries[q].blob = <<r>>}

\* C7 as stated: once the control is released after a press whose microphone request
\* succeeded, whichever came first, the recorder of that press is not left recording;
\* when its stop event has run, its microphone is released and one payload, built from
\* its chunk, was handed to the voice query; and with nothing pending the adapter is idle.
C7_ReleaseStopsRecorder ==
    /\ \A r \in RecorderIds :
          recorders[r].released =>
              /\ recorders[r].pc # "recording"
              /\ recorders[r].pc = "closed" => Cardinality(PayloadsOf(r)) = 1
    /\ (~held /\ \A r \in RecorderIds : recorders[r].pc \notin {"acquiring", "stopping"})
          => ~isRecording

\* the recorders whose microphone stream is open: started, and its tracks not yet
\* stopped by the recorder's stop handler
StreamsOpen == {r \in RecorderIds : recorders[r].pc \in {"recording", "stopping"}}

\* C11 as stated: at most one microphone stream is open, and none is open while the
\* adapter is idle with no acquisition and no stop event pending.
C11_AtMostOneStreamNoneWhenIdle ==
    /\ Cardinality(StreamsOpen) <= 1
    /\ (~isRecording /\ \A r \in RecorderIds : recorders[r].pc \notin {"acquiring", "stopping"})
          => StreamsOpen = {}

=============================================================================
